---------------------------- MODULE Spec2Model ----------------------------
(***************************************************************************)
(* Model of news_sentiment.py: the ChroniclingAmerica object.              *)
(*                                                                         *)
(*   Spec        construction, the paginated fetch (_request_data with     *)
(*               _request_again and _fulfilled_query) and the assembly of  *)
(*               the result, against a remote search service.              *)
(*   SpecExtract the keyword-sentence extraction of _build_sentiment on    *)
(*               one record's text.                                        *)
(***************************************************************************)
EXTENDS Integers, Sequences, FiniteSets, TLC

VARIABLES
    parameters,     \* the types of (keywords, year_min, year_max) passed in
    results_max,    \* soft cap: [inf |-> BOOLEAN, n |-> Int]
    totalItems,     \* service: number of records matching the query
    cumulative,     \* service: endIndex is the cumulative record count
    pageLen,        \* service: number of records on each page
    pc,             \* position of the constructor
    page,           \* _request_data: local page
    prepped,        \* _request_data: the prepared request of this page
    json,           \* _request_data: local json, the accumulated items
    request_time,   \* self.request_time
    request_size,   \* self.request_size
    news,           \* self.news
    raised,         \* the exception that ended the constructor
    log,            \* history of sends, responses, sleeps
    received,       \* history of the pages the loop processed
    text,           \* _build_sentiment: str(df["ocr_eng"]) of one record
    keywords,       \* _build_sentiment: the keywords
    key_sentences,  \* _build_sentiment: df["key_sentences"]
    scorer_text,    \* _build_sentiment: the argument of TextBlob
    xpc,            \* position of the extraction
    frame,          \* _build_dataset, _build_sentiment: the DataFrame
    q,              \* two ChroniclingAmerica objects side by side
    first,          \* what an earlier run of the same query did
    years,          \* run: (year_min, year_max, year_incr)
    export,         \* run: the loop variable
    queried,        \* run: the sub-ranges queried, in order
    exported,       \* run: the sub-ranges exported, in order
    rpc             \* position of run

vars == <<parameters, results_max, totalItems, cumulative, pageLen, pc, page,
          prepped, json, request_time, request_size, news, raised, log,
          received, text, keywords, key_sentences, scorer_text, xpc,
          frame, q, first, years, export, queried, exported, rpc>>

fetchVars == <<parameters, results_max, totalItems, cumulative, pageLen, pc,
               page, prepped, json, request_time, request_size, news, raised,
               log, received>>

textVars == <<text, keywords, key_sentences, scorer_text, xpc>>

tableVars == <<frame>>

pairVars == <<q, first>>

runVars == <<years, export, queried, exported, rpc>>

(***************************************************************************)
(* Bounds.  rows is the page size; the code's default is 20 and the model  *)
(* runs it scaled down.                                                    *)
(***************************************************************************)
MaxTotal == 3
rows == 2
MaxResultsMax == 3
MaxPages == MaxTotal
DistinctRecords == 2
MaxTextLen == 5

Min(a, b) == IF a <= b THEN a ELSE b

NoValue == [none |-> TRUE]

(***************************************************************************)
(* HTTP statuses of the model: 200 OK, 203 (a success status that is not   *)
(* 200 and not an error) and 500 (an error status).                        *)
(***************************************************************************)
OK == 200
SLEEP == 60

\* requests.Response.raise_for_status raises for 4xx and 5xx
RaisesForStatus(status) == 400 <= status /\ status < 600

(***************************************************************************)
(* The remote service.                                                     *)
(***************************************************************************)
RECURSIVE PageStart(_)
PageStart(p) == IF p <= 1 THEN 0
                ELSE Min(totalItems, PageStart(p - 1) + pageLen[p - 1])

PageEnd(p) == Min(totalItems, PageStart(p) + pageLen[p])

\* the corpus repeats its records with period DistinctRecords
Record(i) == ((i - 1) % DistinctRecords) + 1

Items(a, b) == [i \in 1..(b - a) |-> Record(a + i)]

\* the bodies the service may return for page p; a service that is not
\* cumulative reports the page's own count, or the total, as endIndex
Bodies(p) ==
    IF cumulative
    THEN {[parses |-> TRUE, items |-> Items(PageStart(p), PageEnd(p)),
           endIndex |-> PageEnd(p), totalItems |-> totalItems]}
    ELSE {[parses |-> TRUE, items |-> Items(PageStart(p), PageEnd(p)),
           endIndex |-> e, totalItems |-> totalItems] :
               e \in {PageEnd(p) - PageStart(p), totalItems}}

Garbage == [parses |-> FALSE, items |-> <<>>, endIndex |-> 0, totalItems |-> 0]

\* request.elapsed of a response, by its status: the service answers 200
\* in 1 unit of time, 203 in 2, an error or a failed transport in 3
Elapsed(status) == IF status = 200 THEN 1 ELSE IF status = 203 THEN 2 ELSE 3

\* what session.send may produce for a request: a response (200 with the
\* page, 203 with the page or with a body that is no JSON, 500 with a body
\* that is no JSON), or an exception of the transport
Responses(req) ==
    {[exception |-> FALSE, status |-> s, body |-> b, elapsed |-> Elapsed(s)] :
        s \in {200, 203}, b \in Bodies(req.page)}
    \cup {[exception |-> FALSE, status |-> s, body |-> Garbage,
           elapsed |-> Elapsed(s)] : s \in {203, 500}}
    \cup {[exception |-> TRUE, status |-> 0, body |-> Garbage,
           elapsed |-> Elapsed(0)]}

(***************************************************************************)
(* _valid_parameters (lines 65-70): TRUE when it returns, FALSE when it    *)
(* raises TypeError.                                                       *)
(***************************************************************************)
ValidParameters(p) ==
    IF ~p.keywords_str THEN FALSE
    ELSE IF ~p.year_min_int /\ ~p.year_max_int THEN FALSE
    ELSE TRUE

(***************************************************************************)
(* _fulfilled_query (lines 183-185).                                       *)
(***************************************************************************)
\* mutants of AboveMax: the cap compared one record early, and strictly
AboveMaxOneEarly(endIndex, rmax) ==
    IF rmax.inf THEN FALSE ELSE endIndex + 1 >= rmax.n

AboveMaxStrict(endIndex, rmax) ==
    IF rmax.inf THEN FALSE ELSE endIndex > rmax.n

AboveMax(endIndex, rmax) == IF rmax.inf THEN FALSE ELSE endIndex >= rmax.n

\* mutant of FulfilledQuery: both conditions wanted
FulfilledQueryBoth(results, rmax) ==
    /\ results.endIndex = results.totalItems
    /\ AboveMax(results.endIndex, rmax)

\* mutant of FulfilledQuery: the last page is never recognised
FulfilledQueryNeverLast(results, rmax) ==
    \/ results.endIndex > results.totalItems
    \/ AboveMax(results.endIndex, rmax)

FulfilledQuery(results, rmax) ==
    LET last_page == results.endIndex = results.totalItems
        above_max == AboveMax(results.endIndex, rmax)
    IN  last_page \/ above_max

\* mutant of Extend: a hard cap, the page cut at results_max
ExtendTruncated(acc, items) ==
    IF results_max.inf THEN acc \o items
    ELSE SubSeq(acc \o items, 1, Min(Len(acc \o items), results_max.n))

\* line 136, json.extend(results["items"])
Extend(acc, items) == acc \o items

\* line 133, the test of the first attempt: TRUE when the page is retried
FirstAttemptFails(status) == status # OK

\* mutant of NextPage: a page is skipped
NextPageSkips(p) == p + 2

\* line 141, page += 1
NextPage(p) == p + 1

\* mutant of AddElapsed: the duration assigned, not added
AddElapsedAssigns(t, d) == d

\* line 137, self.request_time += request.elapsed.total_seconds()
AddElapsed(t, d) == t + d

\* _build_query (lines 201-209): the part of the query that varies
BuildQuery(r, p) == [rows |-> r, page |-> p]

ResultsMaxValues ==
    {[inf |-> FALSE, n |-> n] : n \in 0..MaxResultsMax}
    \cup {[inf |-> TRUE, n |-> 0]}

ParameterTypes ==
    [keywords_str : BOOLEAN, year_min_int : BOOLEAN, year_max_int : BOOLEAN]

WellTyped ==
    [keywords_str |-> TRUE, year_min_int |-> TRUE, year_max_int |-> TRUE]

TableIdle == frame = NoValue

PairIdle ==
    /\ q = NoValue
    /\ first = NoValue

RunIdle ==
    /\ years = NoValue
    /\ export = 0
    /\ queried = <<>>
    /\ exported = <<>>
    /\ rpc = "idle"

TextIdle ==
    /\ text = <<>>
    /\ keywords = <<>>
    /\ key_sentences = <<>>
    /\ scorer_text = <<>>
    /\ xpc = "idle"

Init ==
    /\ parameters \in ParameterTypes
    /\ results_max \in ResultsMaxValues
    /\ totalItems \in 0..MaxTotal
    /\ cumulative \in BOOLEAN
    /\ pageLen \in [1..MaxPages -> 1..rows]
    \* a page that is not cumulative, or lies past the last record, is full
    /\ \A p \in 1..MaxPages :
          (~cumulative \/ PageStart(p) >= totalItems) => pageLen[p] = rows
    \* mistyped parameters are run against one service and one cap
    /\ (parameters # WellTyped) =>
          (cumulative /\ results_max.inf /\ totalItems = MaxTotal
           /\ pageLen = [p \in 1..MaxPages |-> rows])
    /\ pc = "new"
    /\ page = 1
    /\ prepped = NoValue
    /\ json = <<>>
    /\ request_time = 0
    /\ request_size = 0
    /\ news = NoValue
    /\ raised = NoValue
    /\ log = <<>>
    /\ received = <<>>
    /\ TextIdle
    /\ TableIdle
    /\ PairIdle
    /\ RunIdle

\* mutant of Construct: the counters and the list are not started afresh
ConstructKeeps ==
    /\ pc = "new"
    /\ IF ValidParameters(parameters)
       THEN /\ pc' = "send"
            /\ raised' = raised
       ELSE /\ pc' = "raised"
            /\ raised' = [type |-> "TypeError", status |-> 0]
    /\ page' = 1
    /\ UNCHANGED <<parameters, results_max, totalItems, cumulative, pageLen,
                   prepped, news, log, received, json, request_time,
                   request_size>>
    /\ UNCHANGED <<textVars, tableVars, pairVars, runVars>>

(***************************************************************************)
(* __init__, lines 45-51, up to the call of _request_data, and the start   *)
(* of _request_data (line 110: page=1, line 126: json = []).               *)
(***************************************************************************)
Construct ==
    /\ pc = "new"
    /\ IF ValidParameters(parameters)
       THEN /\ pc' = "send"
            /\ raised' = raised
       ELSE /\ pc' = "raised"
            /\ raised' = [type |-> "TypeError", status |-> 0]
    /\ request_time' = 0
    /\ request_size' = 0
    /\ page' = 1
    /\ json' = <<>>
    /\ UNCHANGED <<parameters, results_max, totalItems, cumulative, pageLen,
                   prepped, news, log, received>>
    /\ UNCHANGED <<textVars, tableVars, pairVars, runVars>>

(***************************************************************************)
(* _request_data, lines 129-132: prepare the request of the current page   *)
(* and send it.                                                            *)
(***************************************************************************)
Send ==
    /\ pc = "send"
    /\ page <= MaxPages
    /\ prepped' = BuildQuery(rows, page)
    /\ log' = Append(log, [ev |-> "send", req |-> prepped', status |-> 0,
                          items |-> <<>>])
    /\ pc' = "await"
    /\ UNCHANGED <<parameters, results_max, totalItems, cumulative, pageLen,
                   page, json, request_time, request_size, news, raised,
                   received>>
    /\ UNCHANGED <<textVars, tableVars, pairVars, runVars>>

(***************************************************************************)
(* _request_data, lines 135-141: parse the response, accumulate, test the  *)
(* stop condition.                                                         *)
(***************************************************************************)
Process(resp) ==
    IF ~resp.body.parses
    THEN /\ pc' = "raised"
         /\ raised' = [type |-> "JSONDecodeError", status |-> resp.status]
         /\ UNCHANGED <<json, request_time, request_size, page, received>>
    ELSE LET results == resp.body
         IN  /\ json' = Extend(json, results.items)
             /\ request_time' = AddElapsed(request_time, resp.elapsed)
             /\ request_size' = <<results.endIndex, results.totalItems>>
             /\ received' = Append(received,
                    [page |-> page, items |-> results.items,
                     endIndex |-> results.endIndex,
                     totalItems |-> results.totalItems,
                     elapsed |-> resp.elapsed, status |-> resp.status])
             /\ IF FulfilledQuery(results, results_max)
                THEN pc' = "fetched" /\ page' = page
                ELSE pc' = "send" /\ page' = NextPage(page)
             /\ raised' = raised

(***************************************************************************)
(* session.send returns or raises on the first attempt (lines 132-141).    *)
(***************************************************************************)
ReceiveFirst ==
    /\ pc = "await"
    /\ \E resp \in Responses(prepped) :
         /\ log' = Append(log, [ev |-> IF resp.exception THEN "exception"
                                       ELSE "response",
                                req |-> prepped, status |-> resp.status,
                                items |-> resp.body.items,
                                body |-> resp.body])
         /\ IF resp.exception
            THEN /\ pc' = "raised"
                 /\ raised' = [type |-> "ConnectionError", status |-> 0]
                 /\ UNCHANGED <<json, request_time, request_size, page,
                                received>>
            ELSE IF FirstAttemptFails(resp.status)
            THEN /\ pc' = "sleep"
                 /\ UNCHANGED <<json, request_time, request_size, page,
                                received, raised>>
            ELSE Process(resp)
    /\ UNCHANGED <<parameters, results_max, totalItems, cumulative, pageLen,
                   prepped, news>>
    /\ UNCHANGED <<textVars, tableVars, pairVars, runVars>>

\* mutant of Sleep: the retry goes out without the wait
SleepSkipped ==
    /\ pc = "sleep"
    /\ pc' = "resend"
    /\ UNCHANGED <<parameters, results_max, totalItems, cumulative, pageLen,
                   page, prepped, json, request_time, request_size, news,
                   raised, log, received>>
    /\ UNCHANGED <<textVars, tableVars, pairVars, runVars>>

(***************************************************************************)
(* _request_again, line 159: time.sleep(60).                               *)
(***************************************************************************)
Sleep ==
    /\ pc = "sleep"
    /\ log' = Append(log, [ev |-> "sleep", req |-> prepped, status |-> SLEEP,
                          items |-> <<>>])
    /\ pc' = "resend"
    /\ UNCHANGED <<parameters, results_max, totalItems, cumulative, pageLen,
                   page, prepped, json, request_time, request_size, news,
                   raised, received>>
    /\ UNCHANGED <<textVars, tableVars, pairVars, runVars>>

(***************************************************************************)
(* _request_again, line 160: session.send(prepped).                        *)
(***************************************************************************)
Resend ==
    /\ pc = "resend"
    /\ log' = Append(log, [ev |-> "send", req |-> prepped, status |-> 0,
                          items |-> <<>>])
    /\ pc' = "await_again"
    /\ UNCHANGED <<parameters, results_max, totalItems, cumulative, pageLen,
                   page, prepped, json, request_time, request_size, news,
                   raised, received>>
    /\ UNCHANGED <<textVars, tableVars, pairVars, runVars>>

(***************************************************************************)
(* _request_again, lines 160-165, then _request_data, lines 135-141.  When *)
(* session.send raises, the local `request` of _request_again is unbound   *)
(* and the except clause itself raises UnboundLocalError.                  *)
(***************************************************************************)
ReceiveAgain ==
    /\ pc = "await_again"
    /\ \E resp \in Responses(prepped) :
         /\ log' = Append(log, [ev |-> IF resp.exception THEN "exception"
                                       ELSE "response",
                                req |-> prepped, status |-> resp.status,
                                items |-> resp.body.items,
                                body |-> resp.body])
         /\ IF resp.exception
            THEN /\ pc' = "raised"
                 /\ raised' = [type |-> "UnboundLocalError", status |-> 0]
                 /\ UNCHANGED <<json, request_time, request_size, page,
                                received>>
            ELSE IF RaisesForStatus(resp.status)
            THEN /\ pc' = "raised"
                 /\ raised' = [type |-> "RuntimeError",
                               status |-> resp.status]
                 /\ UNCHANGED <<json, request_time, request_size, page,
                                received>>
            ELSE Process(resp)
    /\ UNCHANGED <<parameters, results_max, totalItems, cumulative, pageLen,
                   prepped, news>>
    /\ UNCHANGED <<textVars, tableVars, pairVars, runVars>>

(***************************************************************************)
(* _build_dataset, lines 104-107, _build_sentiment and line 51: the table  *)
(* becomes self.news.  Selecting the columns of a table built from no      *)
(* items raises KeyError.                                                  *)
(***************************************************************************)
Assemble ==
    /\ pc = "fetched"
    /\ IF json = <<>>
       THEN /\ pc' = "raised"
            /\ raised' = [type |-> "KeyError", status |-> 0]
            /\ news' = news
       ELSE /\ pc' = "done"
            /\ news' = [table |-> json]
            /\ raised' = raised
    /\ UNCHANGED <<parameters, results_max, totalItems, cumulative, pageLen,
                   page, prepped, json, request_time, request_size, log,
                   received>>
    /\ UNCHANGED <<textVars, tableVars, pairVars, runVars>>

Next ==
    \/ Construct
    \/ Send
    \/ ReceiveFirst
    \/ Sleep
    \/ Resend
    \/ ReceiveAgain
    \/ Assemble

Spec == Init /\ [][Next]_vars

\* the constructor is one sequential call: every blocking call (send, sleep)
\* comes back or raises, so a step that can be taken is taken
FairSpec == Spec /\ WF_vars(Next)

(***************************************************************************)
(* The same query run a second time: ChroniclingAmerica(...) is            *)
(* constructed again with the arguments of the first run, against the same *)
(* corpus.  `first` keeps what the first run sent, received and returned.  *)
(***************************************************************************)
InitRerun ==
    /\ Init
    /\ parameters = WellTyped
    /\ cumulative
    /\ pageLen = [p \in 1..MaxPages |-> rows]

\* a second ChroniclingAmerica(keywords, year_min, year_max, results_max)
\* after the fetch of the first has returned or raised: a new object, new
\* locals, no exception in flight
Rerun ==
    /\ pc \in {"fetched", "raised"}
    /\ first = NoValue
    /\ first' = [log |-> log, json |-> json, request_time |-> request_time,
                 request_size |-> request_size, pc |-> pc, raised |-> raised]
    /\ pc' = "new"
    /\ prepped' = NoValue
    /\ raised' = NoValue
    /\ log' = <<>>
    /\ received' = <<>>
    /\ UNCHANGED <<parameters, results_max, totalItems, cumulative, pageLen,
                   page, json, request_time, request_size, news, q>>
    /\ UNCHANGED <<textVars, tableVars, runVars>>

NextRerun ==
    \/ Construct
    \/ Send
    \/ ReceiveFirst
    \/ Sleep
    \/ Resend
    \/ ReceiveAgain
    \/ Rerun

SpecRerun == InitRerun /\ [][NextRerun]_vars

(***************************************************************************)
(* Two ChroniclingAmerica objects whose fetches run with their steps       *)
(* interleaved, against the same corpus.  q holds, per object, the         *)
(* attributes of the object and the locals of its _request_data.           *)
(***************************************************************************)
Objects == {1, 2}

\* mutant of Self: request_time and request_size live on the class
SelfShared(i) == 1

\* the object whose attributes a step of fetch i reads and writes: self
Self(i) == i

InitPair ==
    /\ parameters = WellTyped
    /\ results_max = [inf |-> TRUE, n |-> 0]
    /\ totalItems \in 0..MaxTotal
    /\ cumulative = TRUE
    /\ pageLen = [p \in 1..MaxPages |-> rows]
    /\ pc = "pair"
    /\ page = 1
    /\ prepped = NoValue
    /\ json = <<>>
    /\ request_time = 0
    /\ request_size = 0
    /\ news = NoValue
    /\ raised = NoValue
    /\ log = <<>>
    /\ received = <<>>
    /\ TextIdle
    /\ TableIdle
    /\ RunIdle
    /\ first = NoValue
    /\ \E rm \in [Objects -> ResultsMaxValues] :
          q = [results_max |-> rm,
               pc |-> [i \in Objects |-> "new"],
               page |-> [i \in Objects |-> 1],
               prepped |-> [i \in Objects |-> NoValue],
               json |-> [i \in Objects |-> <<>>],
               request_time |-> [i \in Objects |-> 0],
               request_size |-> [i \in Objects |-> 0],
               received |-> [i \in Objects |-> <<>>],
               raised |-> [i \in Objects |-> NoValue]]

PairFrame == UNCHANGED <<fetchVars, textVars, tableVars, runVars, first>>

\* lines 49-50, 110 and 126
PairConstruct(i) ==
    /\ q.pc[i] = "new"
    /\ q' = [q EXCEPT !.request_time[Self(i)] = 0,
                      !.request_size[Self(i)] = 0,
                      !.page[i] = 1,
                      !.json[i] = <<>>,
                      !.pc[i] = "send"]
    /\ PairFrame

\* lines 129-132
PairSend(i) ==
    /\ q.pc[i] = "send"
    /\ q.page[i] <= MaxPages
    /\ q' = [q EXCEPT !.prepped[i] = BuildQuery(rows, q.page[i]),
                      !.pc[i] = "await"]
    /\ PairFrame

\* lines 135-141
PairProcess(i, resp) ==
    IF ~resp.body.parses
    THEN [q EXCEPT !.pc[i] = "raised",
                   !.raised[i] = [type |-> "JSONDecodeError",
                                  status |-> resp.status]]
    ELSE LET results == resp.body
             fulfilled == FulfilledQuery(results, q.results_max[i])
         IN  [q EXCEPT
                !.json[i] = Extend(@, results.items),
                !.request_time[Self(i)] = AddElapsed(@, resp.elapsed),
                !.request_size[Self(i)] =
                    <<results.endIndex, results.totalItems>>,
                !.received[i] = Append(@,
                    [page |-> q.page[i], items |-> results.items,
                     endIndex |-> results.endIndex,
                     totalItems |-> results.totalItems,
                     elapsed |-> resp.elapsed, status |-> resp.status]),
                !.pc[i] = IF fulfilled THEN "fetched" ELSE "send",
                !.page[i] = IF fulfilled THEN @ ELSE NextPage(@)]

\* lines 132-141
PairReceiveFirst(i) ==
    /\ q.pc[i] = "await"
    /\ \E resp \in Responses(q.prepped[i]) :
          q' = IF resp.exception
               THEN [q EXCEPT !.pc[i] = "raised",
                              !.raised[i] = [type |-> "ConnectionError",
                                             status |-> 0]]
               ELSE IF FirstAttemptFails(resp.status)
               THEN [q EXCEPT !.pc[i] = "sleep"]
               ELSE PairProcess(i, resp)
    /\ PairFrame

\* lines 159-160
PairSleepAndResend(i) ==
    /\ q.pc[i] = "sleep"
    /\ q' = [q EXCEPT !.pc[i] = "await_again"]
    /\ PairFrame

\* lines 160-165, then 135-141
PairReceiveAgain(i) ==
    /\ q.pc[i] = "await_again"
    /\ \E resp \in Responses(q.prepped[i]) :
          q' = IF resp.exception
               THEN [q EXCEPT !.pc[i] = "raised",
                              !.raised[i] = [type |-> "UnboundLocalError",
                                             status |-> 0]]
               ELSE IF RaisesForStatus(resp.status)
               THEN [q EXCEPT !.pc[i] = "raised",
                              !.raised[i] = [type |-> "RuntimeError",
                                             status |-> resp.status]]
               ELSE PairProcess(i, resp)
    /\ PairFrame

NextPair ==
    \E i \in Objects :
        \/ PairConstruct(i)
        \/ PairSend(i)
        \/ PairReceiveFirst(i)
        \/ PairSleepAndResend(i)
        \/ PairReceiveAgain(i)

SpecPair == InitPair /\ [][NextPair]_vars

(***************************************************************************)
(* _build_sentiment, lines 225-232, on the text of one record.             *)
(*                                                                         *)
(* A text is a sequence of characters: "D" an upper-case letter, "x" a     *)
(* lower-case letter, " " a character that is no word character, and the   *)
(* period.  A keyword is a sequence of letters.                            *)
(***************************************************************************)
Chars == {"D", "x", " ", "."}

RECURSIVE SeqsUpTo(_, _)
SeqsUpTo(S, n) ==
    IF n = 0 THEN {<<>>}
    ELSE LET shorter == SeqsUpTo(S, n - 1)
         IN  shorter \cup {Append(t, c) : t \in {u \in shorter : Len(u) = n - 1},
                                          c \in S}

Texts == SeqsUpTo(Chars, MaxTextLen)

KeywordLists ==
    { << <<"d">> >>,
      << <<"x", "d">> >>,
      << <<"d">>, <<"X">> >>,
      << <<"x", "d">>, <<"d">> >> }

\* re.I: letters compare by their lower case
Lower(c) == IF c = "D" THEN "d" ELSE IF c = "X" THEN "x" ELSE c

\* \w of the regular expression
IsWord(c) == c \in {"d", "D", "x", "X", "n", "a"}

\* \b holds before position i of t (1..Len(t)+1)
WordBoundary(t, i) ==
    LET before == i > 1 /\ IsWord(t[i - 1])
        after == i <= Len(t) /\ IsWord(t[i])
    IN  before # after

\* \bkeyword\b matches t at position j
KeywordAt(t, k, j) ==
    /\ j + Len(k) - 1 <= Len(t)
    /\ WordBoundary(t, j)
    /\ \A i \in 1..Len(k) : Lower(t[j + i - 1]) = Lower(k[i])
    /\ WordBoundary(t, j + Len(k))

\* .*?\. from position i: the position of the first period at or after i,
\* 0 when there is none
RECURSIVE FirstPeriod(_, _)
FirstPeriod(t, i) ==
    IF i > Len(t) THEN 0
    ELSE IF t[i] = "." THEN i
    ELSE FirstPeriod(t, i + 1)

\* the pattern of lines 225-226 tried at position pos: the position of the
\* last character of the match, 0 when the pattern does not match there.
\* (?<=\.)+ wants a period before pos; [^\.]* runs over no period and is
\* greedy, so the rightmost keyword position that lets the rest match wins;
\* the alternation takes the first keyword of the list that does
MatchEnd(kws, t, pos) ==
    IF ~(pos > 1 /\ t[pos - 1] = ".") THEN 0
    ELSE LET ways == {j \in pos..Len(t) :
                        /\ \A i \in pos..(j - 1) : t[i] # "."
                        /\ \E n \in 1..Len(kws) :
                              /\ KeywordAt(t, kws[n], j)
                              /\ FirstPeriod(t, j + Len(kws[n])) # 0}
         IN  IF ways = {} THEN 0
             ELSE LET j == CHOOSE w \in ways : \A v \in ways : v <= w
                      n == CHOOSE m \in 1..Len(kws) :
                              /\ KeywordAt(t, kws[m], j)
                              /\ FirstPeriod(t, j + Len(kws[m])) # 0
                              /\ \A l \in 1..(m - 1) :
                                    ~(/\ KeywordAt(t, kws[l], j)
                                      /\ FirstPeriod(t, j + Len(kws[l])) # 0)
                  IN  FirstPeriod(t, j + Len(kws[n]))

\* re.findall of the pattern in t, scanning from pos: the matches in text
\* order, none overlapping another
RECURSIVE FindAllFrom(_, _, _)
FindAllFrom(kws, t, pos) ==
    IF pos > Len(t) THEN <<>>
    ELSE LET e == MatchEnd(kws, t, pos)
         IN  IF e = 0 THEN FindAllFrom(kws, t, pos + 1)
             ELSE <<SubSeq(t, pos, e)>> \o FindAllFrom(kws, t, e + 1)

FindAll(kws, t) == FindAllFrom(kws, t, 1)

\* the separator of line 231, r"\n": a backslash and the letter n
Separator == <<"\\", "n">>

\* mutant of Join: the strings joined last to first
RECURSIVE JoinReversed(_, _)
JoinReversed(sep, strings) ==
    IF strings = <<>> THEN <<>>
    ELSE IF Len(strings) = 1 THEN strings[1]
    ELSE JoinReversed(sep, Tail(strings)) \o sep \o strings[1]

\* str.join
RECURSIVE Join(_, _)
Join(sep, strings) ==
    IF strings = <<>> THEN <<>>
    ELSE IF Len(strings) = 1 THEN strings[1]
    ELSE strings[1] \o sep \o Join(sep, Tail(strings))

FetchIdle ==
    /\ parameters = WellTyped
    /\ results_max = [inf |-> TRUE, n |-> 0]
    /\ totalItems = 0
    /\ cumulative = TRUE
    /\ pageLen = [p \in 1..MaxPages |-> rows]
    /\ pc = "build_sentiment"
    /\ page = 1
    /\ prepped = NoValue
    /\ json = <<>>
    /\ request_time = 0
    /\ request_size = 0
    /\ news = NoValue
    /\ raised = NoValue
    /\ log = <<>>
    /\ received = <<>>

InitExtract ==
    /\ FetchIdle
    /\ TableIdle
    /\ PairIdle
    /\ RunIdle
    /\ text \in Texts
    /\ keywords \in KeywordLists
    /\ key_sentences = <<>>
    /\ scorer_text = <<>>
    /\ xpc = "start"

\* lines 227-229: df["key_sentences"] of the record
FindKeySentences ==
    /\ xpc = "start"
    /\ key_sentences' = FindAll(keywords, text)
    /\ xpc' = "found"
    /\ UNCHANGED <<text, keywords, scorer_text>>
    /\ UNCHANGED <<fetchVars, tableVars, pairVars, runVars>>

\* lines 230-232: the text handed to TextBlob
JoinKeySentences ==
    /\ xpc = "found"
    /\ scorer_text' = Join(Separator, key_sentences)
    /\ xpc' = "scored"
    /\ UNCHANGED <<text, keywords, key_sentences>>
    /\ UNCHANGED <<fetchVars, tableVars, pairVars, runVars>>

NextExtract ==
    \/ FindKeySentences
    \/ JoinKeySentences

SpecExtract == InitExtract /\ [][NextExtract]_vars

(***************************************************************************)
(* _build_dataset and _build_sentiment on a list of fetched items.  An     *)
(* item is a dict; a cell of the DataFrame is a value of an item, NaN      *)
(* where the item has no such key, or what to_datetime made of it.         *)
(***************************************************************************)
MaxRecords == 2

\* line 102
COLUMNS == {"date", "state", "county", "city", "title", "ocr_eng"}

NaN == [kind |-> "nan"]

NaT == [kind |-> "NaT"]

SampleText(n) ==
    IF n = 1 THEN <<".", "D", ".">>
    ELSE <<"x", ".", " ", "D", " ", "x", ".">>

\* the item the service holds for record n
MakeItem(n) ==
    [c \in COLUMNS |->
        IF c = "ocr_eng" THEN [kind |-> "text", chars |-> SampleText(n)]
        ELSE [kind |-> "str", col |-> c, id |-> n]]

Without(item, c) == [k \in (DOMAIN item) \ {c} |-> item[k]]

BadDate(item) == [item EXCEPT !["date"] = [kind |-> "junk"]]

FetchedItems ==
    LET whole == {MakeItem(n) : n \in 1..DistinctRecords}
    IN  whole \cup {Without(it, c) : it \in whole, c \in COLUMNS}
              \cup {BadDate(it) : it \in whole}

\* line 104, a mutant: the rows come out last item first
FromDictReversed(items) ==
    LET cols == UNION {DOMAIN items[i] : i \in 1..Len(items)}
        n == Len(items)
    IN  [columns |-> cols,
         rows |-> [i \in 1..n |->
                     [c \in cols |-> IF c \in DOMAIN items[n + 1 - i]
                                     THEN items[n + 1 - i][c] ELSE NaN]]]

\* line 104: pd.DataFrame.from_dict(list of dicts): one row per item in
\* order, one column per key of any item, NaN where an item lacks the key
FromDict(items) ==
    LET cols == UNION {DOMAIN items[i] : i \in 1..Len(items)}
    IN  [columns |-> cols,
         rows |-> [i \in 1..Len(items) |->
                     [c \in cols |-> IF c \in DOMAIN items[i]
                                     THEN items[i][c] ELSE NaN]]]

\* line 105: raw_data[COLUMNS] of a table that has all of them
Select(df, cols) ==
    [columns |-> cols,
     rows |-> [i \in 1..Len(df.rows) |-> [c \in cols |-> df.rows[i][c]]]]

\* line 106: pd.to_datetime of one cell
Parseable(v) == v.kind \in {"str", "nan"}

ToDatetime(v) ==
    IF v.kind = "nan" THEN NaT ELSE [kind |-> "Timestamp", id |-> v.id]

\* line 229: str(df["ocr_eng"])
Str(v) == IF v.kind = "nan" THEN <<"n", "a", "n">> ELSE v.chars

InitDataset ==
    /\ parameters = WellTyped
    /\ results_max = [inf |-> TRUE, n |-> 0]
    /\ totalItems = 0
    /\ cumulative = TRUE
    /\ pageLen = [p \in 1..MaxPages |-> rows]
    /\ pc = "fetched"
    /\ page = 1
    /\ prepped = NoValue
    /\ json \in SeqsUpTo(FetchedItems, MaxRecords)
    /\ request_time = 0
    /\ request_size = 0
    /\ news = NoValue
    /\ raised = NoValue
    /\ log = <<>>
    /\ received = <<>>
    /\ text = <<>>
    /\ keywords \in KeywordLists
    /\ key_sentences = <<>>
    /\ scorer_text = <<>>
    /\ xpc = "idle"
    /\ TableIdle
    /\ PairIdle
    /\ RunIdle

\* lines 104-107
BuildDataset ==
    /\ pc = "fetched"
    /\ LET raw == FromDict(json)
       IN  IF ~(COLUMNS \subseteq raw.columns)
           THEN /\ pc' = "raised"
                /\ raised' = [type |-> "KeyError", status |-> 0]
                /\ frame' = frame
           ELSE LET sel == Select(raw, COLUMNS)
                IN  IF \E i \in 1..Len(sel.rows) : ~Parseable(sel.rows[i].date)
                    THEN /\ pc' = "raised"
                         /\ raised' = [type |-> "ValueError", status |-> 0]
                         /\ frame' = frame
                    ELSE /\ pc' = "dataset"
                         /\ raised' = raised
                         /\ frame' =
                              [sel EXCEPT !.rows =
                                  [i \in 1..Len(sel.rows) |->
                                      [sel.rows[i] EXCEPT !["date"] =
                                          ToDatetime(@)]]]
    /\ UNCHANGED <<parameters, results_max, totalItems, cumulative, pageLen,
                   page, prepped, json, request_time, request_size, news,
                   log, received>>
    /\ UNCHANGED <<textVars, pairVars, runVars>>

\* lines 225-235 and line 51: every row gets its key sentences and the
\* text handed to TextBlob; the table becomes self.news
BuildSentiment ==
    /\ pc = "dataset"
    /\ frame' =
          [columns |-> frame.columns \cup {"key_sentences", "sentiment"},
           rows |-> [i \in 1..Len(frame.rows) |->
              LET found == FindAll(keywords, Str(frame.rows[i].ocr_eng))
              IN  [c \in frame.columns \cup {"key_sentences", "sentiment"} |->
                     IF c = "key_sentences"
                     THEN [kind |-> "list", strings |-> found]
                     ELSE IF c = "sentiment"
                     THEN [kind |-> "TextBlob",
                           chars |-> Join(Separator, found)]
                     ELSE frame.rows[i][c]]]]
    /\ news' = frame'
    /\ pc' = "done"
    /\ UNCHANGED <<parameters, results_max, totalItems, cumulative, pageLen,
                   page, prepped, json, request_time, request_size, raised,
                   log, received>>
    /\ UNCHANGED <<textVars, pairVars, runVars>>

NextDataset ==
    \/ BuildDataset
    \/ BuildSentiment

SpecDataset == InitDataset /\ [][NextDataset]_vars

(***************************************************************************)
(* run, lines 281-291: the driver's loop over the sub-ranges of years.     *)
(* Years are counted from the earliest year of the corpus.                 *)
(***************************************************************************)
MaxYear == 5

MaxIncr == 3

\* line 281
NumExports == (years.year_max - years.year_min) \div years.year_incr + 1

\* line 283
TempMin(e) == years.year_min + years.year_incr * (e - 1)

\* line 284, a mutant: the sub-range is not cut at year_max
TempMaxUncut(temp_min) == temp_min + years.year_incr - 1

\* line 284
TempMax(temp_min) == Min(temp_min + years.year_incr - 1, years.year_max)

InitRun ==
    /\ FetchIdle
    /\ TextIdle
    /\ TableIdle
    /\ PairIdle
    /\ years \in [year_min : 0..MaxYear, year_max : 0..MaxYear,
                  year_incr : 0..MaxIncr]
    /\ export = 0
    /\ queried = <<>>
    /\ exported = <<>>
    /\ rpc = "start"

RunFrame == UNCHANGED <<fetchVars, textVars, tableVars, pairVars, years>>

\* lines 281-282: num_exports and the range of the loop; a zero increment
\* raises ZeroDivisionError
StartLoop ==
    /\ rpc = "start"
    /\ IF years.year_incr = 0
       THEN rpc' = "crashed" /\ export' = export
       ELSE rpc' = "loop" /\ export' = 1
    /\ UNCHANGED <<queried, exported>>
    /\ RunFrame

\* lines 283-286: the sub-range and its ChroniclingAmerica object, whose
\* construction returns or raises
Query ==
    /\ rpc = "loop"
    /\ export <= NumExports
    /\ LET temp_min == TempMin(export)
           temp_max == TempMax(temp_min)
       IN  queried' = Append(queried, [temp_min |-> temp_min,
                                       temp_max |-> temp_max])
    /\ \E ok \in BOOLEAN : rpc' = IF ok THEN "export" ELSE "crashed"
    /\ UNCHANGED <<export, exported>>
    /\ RunFrame

\* lines 287-289: to_csv, _log_progress, and the next value of export
Export ==
    /\ rpc = "export"
    /\ exported' = Append(exported, queried[Len(queried)])
    /\ export' = export + 1
    /\ rpc' = "loop"
    /\ UNCHANGED queried
    /\ RunFrame

\* lines 290-291
Finish ==
    /\ rpc = "loop"
    /\ export > NumExports
    /\ rpc' = "finished"
    /\ UNCHANGED <<export, queried, exported>>
    /\ RunFrame

NextRun ==
    \/ StartLoop
    \/ Query
    \/ Export
    \/ Finish

SpecRun == InitRun /\ [][NextRun]_vars

(***************************************************************************)
(* Vocabulary of the properties.                                           *)
(***************************************************************************)
Last(s) == s[Len(s)]

\* _request_data has returned
Returned ==
    \/ pc \in {"fetched", "done"}
    \/ (pc = "raised" /\ raised.type = "KeyError")

\* the stop condition as the specification words it
StopCondition(r) ==
    \/ r.endIndex = r.totalItems
    \/ (~results_max.inf /\ r.endIndex >= results_max.n)

RECURSIVE ConcatItems(_)
ConcatItems(pages) ==
    IF pages = <<>> THEN <<>>
    ELSE ConcatItems(SubSeq(pages, 1, Len(pages) - 1)) \o Last(pages).items

Sends == {i \in 1..Len(log) : log[i].ev = "send"}
Sleeps == {i \in 1..Len(log) : log[i].ev = "sleep"}
SendsOf(p) == {i \in Sends : log[i].req.page = p}
\* log[i] is the second send of its page
IsResend(i) ==
    /\ log[i].ev = "send"
    /\ \E j \in 1..(i - 1) :
           log[j].ev = "send" /\ log[j].req.page = log[i].req.page
\* log[i] is what came back from a first send, from a second send
IsFirstOutcome(i) ==
    i \in 2..Len(log) /\ log[i].ev \in {"response", "exception"}
                      /\ ~IsResend(i - 1)
IsRetryOutcome(i) ==
    i \in 2..Len(log) /\ log[i].ev \in {"response", "exception"}
                      /\ IsResend(i - 1)

(***************************************************************************)
(* C1: after each page the loop processed it stops if and only if that     *)
(* page's endIndex = totalItems or endIndex >= results_max, and otherwise  *)
(* the next request is for page + 1: the stop condition is false for every *)
(* page before the last and true for the last, and a first page with       *)
(* endIndex = totalItems ends the fetch after one request and no retry.    *)
(***************************************************************************)
C1_StopExactlyAtLastPage ==
    /\ \A i \in 1..Len(received) : received[i].page = i
    /\ \A i \in 1..(Len(received) - 1) : ~StopCondition(received[i])
    /\ (received # <<>> /\ ~Returned) =>
           /\ ~StopCondition(Last(received))
           /\ page = Len(received) + 1
    /\ Returned => (received # <<>> /\ StopCondition(Last(received))
                    /\ page = Len(received))
    /\ pc \in {"await", "sleep", "resend", "await_again"} =>
           prepped.page = Len(received) + 1
    /\ (/\ Len(log) >= 2
        /\ log[2].ev = "response"
        /\ log[2].status = OK
        /\ received[1].endIndex = received[1].totalItems) =>
           (Returned /\ Len(log) = 2 /\ Len(received) = 1)

C1_Witness ==
    /\ pc = "done"
    /\ Len(received) >= 2
    /\ Last(received).endIndex # Last(received).totalItems

(***************************************************************************)
(* C2: when _request_data returns, the accumulated sequence is the         *)
(* concatenation, in page order, of the complete items of every page       *)
(* received: the last page is kept in full past results_max, nothing is    *)
(* dropped or truncated, duplicates stay.                                  *)
(***************************************************************************)
C2_SoftCapKeepsWholePages ==
    Returned =>
        /\ json = ConcatItems(received)
        /\ \A i \in 1..Len(received) :
               received[i].items = Items(PageStart(i), PageEnd(i))

C2_Witness ==
    /\ Returned
    /\ Len(received) >= 2
    /\ ~results_max.inf
    /\ results_max.n > 0
    /\ Len(json) > results_max.n
    /\ \E i, j \in 1..Len(json) : i # j /\ json[i] = json[j]

(***************************************************************************)
(* C3: against a service whose endIndex is the cumulative record count,    *)
(* when the fetch returns the accumulated item count is at least           *)
(* min(totalItems, results_max) and the endIndex of the final page equals  *)
(* totalItems or is at least results_max.                                  *)
(***************************************************************************)
MinOfTotalAndCap ==
    IF results_max.inf THEN totalItems ELSE Min(totalItems, results_max.n)

C3_CountReachesMin ==
    (Returned /\ cumulative) =>
        /\ Len(json) >= MinOfTotalAndCap
        /\ \/ Last(received).endIndex = totalItems
           \/ (~results_max.inf /\ Last(received).endIndex >= results_max.n)

C3_Witness ==
    /\ pc = "done"
    /\ cumulative
    /\ Len(received) >= 2
    /\ ~results_max.inf
    /\ Len(json) = results_max.n
    /\ Len(json) < totalItems

(***************************************************************************)
(* C4: for a positive results_max and a cumulative service returning at    *)
(* most rows records per page, the item count when the fetch returns is    *)
(* below results_max + rows, and the count after the page before the last  *)
(* is below results_max.                                                   *)
(***************************************************************************)
C4_OvershootBelowOnePage ==
    (Returned /\ cumulative /\ ~results_max.inf /\ results_max.n > 0) =>
        /\ Len(json) < results_max.n + rows
        /\ Len(received) >= 2 =>
               Len(json) - Len(Last(received).items) < results_max.n

C4_Witness ==
    /\ pc = "done"
    /\ cumulative
    /\ ~results_max.inf
    /\ results_max.n > 0
    /\ Len(received) >= 2
    /\ Len(json) = results_max.n + rows - 1

(***************************************************************************)
(* C5: every page is sent at most twice; a second send comes only after a  *)
(* response of non-success status to the first send of the same page and   *)
(* after the fixed wait, and repeats the first request; when the retry     *)
(* succeeds the items of the retried response are appended once and the    *)
(* fetch goes on, a later failing page having its own single retry.        *)
(***************************************************************************)
C5_OneRetryPerFailedPage ==
    /\ \A p \in 1..MaxPages : Cardinality(SendsOf(p)) <= 2
    /\ \A i \in Sends :
         IsResend(i) =>
            /\ i >= 4
            /\ log[i - 1].ev = "sleep"
            /\ log[i - 1].status = 60
            /\ log[i - 2].ev = "response"
            /\ log[i - 2].status # 200
            /\ log[i - 3].ev = "send"
            /\ log[i - 3].req = log[i].req
    /\ Cardinality(Sleeps) = Cardinality({i \in Sends : IsResend(i)})
           + (IF pc = "resend" THEN 1 ELSE 0)
    /\ \A i \in 1..Len(log) :
         (IsRetryOutcome(i) /\ Len(received) >= log[i].req.page) =>
            /\ received[log[i].req.page].items = log[i].items
            /\ Len(json) >= Len(ConcatItems(SubSeq(received, 1,
                                                   log[i].req.page)))
    /\ json = ConcatItems(received)

C5_Witness ==
    /\ pc = "done"
    /\ \E i, j \in Sleeps : log[i].req.page # log[j].req.page
    /\ Len(json) = totalItems

(***************************************************************************)
(* C6: when the retry of a page fails too (its response has a non-success  *)
(* status), the fetch ends with the fetch error carrying that status: no   *)
(* request follows, and self.news is never set.                            *)
(***************************************************************************)
C6_RetryFailureIsFatal ==
    \A i \in 1..Len(log) :
        (parameters = WellTyped /\ IsRetryOutcome(i) /\ log[i].ev = "response" /\ log[i].status # 200) =>
            /\ i = Len(log)
            /\ pc = "raised"
            /\ raised.type = "RuntimeError"
            /\ raised.status = log[i].status
            /\ news = NoValue

(***************************************************************************)
(* C7: an exception of the transport counts as a non-success status: on    *)
(* the first send of a page it leads to the wait and the single retry, on  *)
(* the retry to the fatal fetch error.                                     *)
(***************************************************************************)
C7_TransportErrorsAreRetried ==
    parameters = WellTyped =>
        \A i \in 1..Len(log) :
            /\ (IsFirstOutcome(i) /\ log[i].ev = "exception") =>
                  IF i = Len(log) THEN pc = "sleep"
                  ELSE log[i + 1].ev = "sleep"
            /\ (IsRetryOutcome(i) /\ log[i].ev = "exception") =>
                  (pc = "raised" /\ raised.type = "RuntimeError")

(***************************************************************************)
(* C8: a query with a keyword that is no string, or a year_min that is no  *)
(* integer, or a year_max that is no integer, ends in the validation error *)
(* at construction, before any request is sent.                            *)
(***************************************************************************)
C8_MistypedParametersRejected ==
    (pc # "new" /\ parameters # WellTyped) =>
        (pc = "raised" /\ raised.type = "TypeError" /\ log = <<>>)

(***************************************************************************)
(* The sentences of a text as the specification words them: the maximal    *)
(* runs of characters that end in a period, the first starting at the      *)
(* beginning of the text and each next one right after the previous        *)
(* period; what follows the last period is no sentence.                    *)
(***************************************************************************)
RECURSIVE SentencesFrom(_, _)
SentencesFrom(t, start) ==
    LET e == FirstPeriod(t, start)
    IN  IF e = 0 THEN <<>>
        ELSE <<SubSeq(t, start, e)>> \o SentencesFrom(t, e + 1)

Sentences(t) == SentencesFrom(t, 1)

\* s contains the keyword k as a whole word, whatever the case
ContainsWholeWord(s, k) ==
    \E j \in 1..(Len(s) - Len(k) + 1) :
        /\ \A i \in 1..Len(k) : Lower(s[j + i - 1]) = Lower(k[i])
        /\ (j = 1 \/ ~IsWord(s[j - 1]))
        /\ (j + Len(k) > Len(s) \/ ~IsWord(s[j + Len(k)]))

IsSelected(s) == \E n \in 1..Len(keywords) : ContainsWholeWord(s, keywords[n])

SelectedSentences(t) == SelectSeq(Sentences(t), IsSelected)

\* the pieces of s between the occurrences of the separator
RECURSIVE SplitFrom(_, _, _)
SplitFrom(s, start, i) ==
    IF i > Len(s) THEN <<SubSeq(s, start, Len(s))>>
    ELSE IF i < Len(s) /\ SubSeq(s, i, i + 1) = Separator
    THEN <<SubSeq(s, start, i - 1)>> \o SplitFrom(s, i + 2, i + 2)
    ELSE SplitFrom(s, start, i + 1)

(***************************************************************************)
(* C9: key_sentences is the sequence, in text order, of all the selected   *)
(* sentences of the text, a sentence being selected when it contains one   *)
(* of the keywords as a whole word, whatever the case; the first sentence  *)
(* of the text is one of them.                                             *)
(***************************************************************************)
C9_KeySentencesAreTheSelectedSentences ==
    xpc \in {"found", "scored"} => key_sentences = SelectedSentences(text)

Outcomes == {i \in 1..Len(log) : log[i].ev \in {"response", "exception"}}

C14_PagesAreSequential ==
    /\ log # <<>> => (log[1].ev = "send" /\ log[1].req.page = 1)
    /\ Cardinality(Sends) - Cardinality(Outcomes)
           = (IF pc \in {"await", "await_again"} THEN 1 ELSE 0)
    /\ \A i \in 2..Len(log) :
         log[i].ev = "send" =>
            /\ log[i - 1].ev # "send"
            /\ \E j \in 1..(i - 1) :
                  /\ log[j].ev = "send"
                  /\ \A k \in (j + 1)..(i - 1) : log[k].ev # "send"
                  /\ \/ (log[i].req = log[j].req /\ log[i - 1].ev = "sleep")
                     \/ /\ log[i].req.page = log[j].req.page + 1
                        /\ log[i - 1].ev = "response"
                        /\ Len(received) >= log[j].req.page
                        /\ received[log[j].req.page].items = log[i - 1].items
                        /\ ~StopCondition(received[log[j].req.page])
    /\ \A i \in 1..Len(received) : received[i].page = i
    /\ Len(json) = Len(ConcatItems(received))
    /\ page = Len(received) + (IF Returned THEN 0 ELSE 1)

C14_Witness ==
    /\ pc = "done"
    /\ Len(received) = 3
    /\ Cardinality(Sleeps) >= 1

(***************************************************************************)
(* C15: request_time and request_size change only when a page is           *)
(* processed: request_time grows by the duration of that response and      *)
(* request_size becomes that page's (endIndex, totalItems).  A failed      *)
(* first attempt, the wait and a fatal failure leave them as they are, so  *)
(* at the end request_size is the pair of the last page and request_time   *)
(* the sum, from 0, of the durations of the responses processed.           *)
(***************************************************************************)
RECURSIVE SumOfDurations(_)
SumOfDurations(pages) ==
    IF pages = <<>> THEN 0
    ELSE SumOfDurations(SubSeq(pages, 1, Len(pages) - 1))
             + Elapsed(Last(pages).status)

C15_StatsFollowProcessedPages ==
    pc # "new" =>
        /\ request_time = SumOfDurations(received)
        /\ IF received = <<>> THEN request_size = 0
           ELSE request_size = <<Last(received).endIndex,
                                 Last(received).totalItems>>

C15_Witness ==
    /\ pc = "done"
    /\ Len(received) >= 2
    /\ \E i \in 1..Len(log) : IsRetryOutcome(i) /\ log[i].status = 200
    /\ request_time = Len(received)

(***************************************************************************)
(* C16: the first attempt and the retry judge a response alike: a status   *)
(* that makes the first attempt fail (any status but 200) makes the retry  *)
(* fail too, so every page the loop processes came with status 200.        *)
(***************************************************************************)
C16_SameCriterionOnRetry ==
    parameters = WellTyped =>
        \A i \in 1..Len(received) : ~FirstAttemptFails(received[i].status)

(***************************************************************************)
(* C17: against a service with a constant totalItems (0 included) that     *)
(* returns between 1 and rows records on every page but the last and       *)
(* reports the cumulative count as endIndex, _request_data always ends: it *)
(* returns or the fatal error is raised, whatever results_max is, after at *)
(* least one page.                                                         *)
(***************************************************************************)
Max(a, b) == IF a >= b THEN a ELSE b

Terminated == pc \in {"fetched", "done", "raised"}

\* ceil(totalItems / rows)
CeilPages == (totalItems + rows - 1) \div rows

FullPages == \A p \in 1..MaxPages : pageLen[p] = rows

\* C17 as stated: the fetch ends after at most ceil(totalItems / rows) pages
\* (one page at least)
C17_EndsWithinCeilPages ==
    (cumulative /\ Terminated) => page <= Max(1, CeilPages)

\* C17 as amended: the fetch ends, after at most totalItems pages (one page
\* at least), and after at most ceil(totalItems / rows) pages when every
\* page but the last is full
C17_FetchTerminates ==
    /\ cumulative => <>Terminated
    /\ [](cumulative => page <= Max(1, totalItems))
    /\ []((cumulative /\ FullPages) => page <= Max(1, CeilPages))
    /\ []((Returned /\ cumulative) => Len(received) >= 1)

C17_Witness ==
    /\ cumulative
    /\ Returned
    /\ results_max.inf
    /\ Len(received) = totalItems
    /\ Len(received) > CeilPages

(***************************************************************************)
(* C11: the enriched records are no more than the fetched records and in   *)
(* the same order: row i carries the date, state, county, city, title and  *)
(* text of fetched record i, and its key sentences were found in that      *)
(* record's text.                                                          *)
(***************************************************************************)
CarriedCell(item, c) ==
    IF c \notin DOMAIN item THEN IF c = "date" THEN NaT ELSE NaN
    ELSE IF c = "date" THEN [kind |-> "Timestamp", id |-> item[c].id]
    ELSE item[c]

TextOf(item) ==
    IF "ocr_eng" \in DOMAIN item THEN item.ocr_eng.chars ELSE <<"n", "a", "n">>

C11_RowsFollowFetchedRecords ==
    (news # NoValue) =>
        /\ Len(news.rows) <= Len(json)
        /\ \A i \in 1..Len(news.rows) :
              /\ \A c \in COLUMNS : news.rows[i][c] = CarriedCell(json[i], c)
              /\ news.rows[i].key_sentences.strings
                    = FindAll(keywords, TextOf(json[i]))

C11_Witness ==
    /\ pc = "done"
    /\ Len(json) = 2
    /\ json[1] # json[2]
    /\ DOMAIN json[1] = COLUMNS
    /\ DOMAIN json[2] = COLUMNS
    /\ json[1].ocr_eng # json[2].ocr_eng
    /\ news.rows[1].key_sentences.strings # news.rows[2].key_sentences.strings

(***************************************************************************)
(* C13: once the dataset has been assembled from items of which one lacks  *)
(* a required column, the outcome is a KeyError and no table.              *)
(***************************************************************************)
LacksColumn == \E i \in 1..Len(json) : \E c \in COLUMNS : c \notin DOMAIN json[i]

C13_MissingColumnIsRejected ==
    (pc # "fetched" /\ LacksColumn) =>
        /\ pc = "raised"
        /\ raised.type = "KeyError"
        /\ frame = NoValue
        /\ news = NoValue

(***************************************************************************)
(* C12: a second run of the same query that gets the same answers from the *)
(* service sends the same requests in the same order and ends as the first *)
(* run did, with the same records and the same counters: nothing of the    *)
(* first run is left in the second.                                        *)
(***************************************************************************)
IsPrefix(s, t) == Len(s) <= Len(t) /\ \A i \in 1..Len(s) : s[i] = t[i]

IsAnswer(e) == e.ev \in {"response", "exception"}

Answers(l) == SelectSeq(l, IsAnswer)

C12_RerunRepeatsFirstRun ==
    (first # NoValue /\ IsPrefix(Answers(log), Answers(first.log))) =>
        /\ IsPrefix(log, first.log)
        /\ (pc \in {"fetched", "raised"}) =>
              /\ log = first.log
              /\ pc = first.pc
              /\ raised = first.raised
              /\ json = first.json
              /\ request_time = first.request_time
              /\ request_size = first.request_size

C12_Witness ==
    /\ first # NoValue
    /\ pc = "fetched"
    /\ log = first.log
    /\ Len(received) >= 2
    /\ \E i \in 1..Len(log) : log[i].ev = "sleep"

(***************************************************************************)
(* C18: with the steps of two fetches interleaved in any order, the        *)
(* accumulated items, request_time and request_size of each are those of   *)
(* its own pages alone, and a step of one leaves the items and counters of *)
(* the other as they were.                                                 *)
(***************************************************************************)
OwnResult(i) ==
    /\ q.json[i] = ConcatItems(q.received[i])
    /\ q.request_time[i] = SumOfDurations(q.received[i])
    /\ IF q.received[i] = <<>> THEN q.request_size[i] = 0
       ELSE q.request_size[i] = <<Last(q.received[i]).endIndex,
                                  Last(q.received[i]).totalItems>>

StepOf(i) == q.pc'[i] # q.pc[i]

C18_InstancesAreIsolated ==
    /\ [](\A i \in Objects : OwnResult(i))
    /\ [][\A i \in Objects : \A j \in Objects \ {i} :
             StepOf(i) => /\ q.json'[j] = q.json[j]
                          /\ q.request_time'[j] = q.request_time[j]
                          /\ q.request_size'[j] = q.request_size[j]
                          /\ q.page'[j] = q.page[j]
                          /\ q.received'[j] = q.received[j]]_vars

C18_Witness ==
    /\ q # NoValue
    /\ \A i \in Objects : q.pc[i] = "fetched"
    /\ Len(q.received[1]) >= 2
    /\ Len(q.received[2]) = 1
    /\ q.json[1] # q.json[2]
    /\ q.request_time[1] # q.request_time[2]

(***************************************************************************)
(* C19: for year_min <= year_max and an increment of at least 1 the        *)
(* sub-ranges queried are consecutive from year_min, none empty, none      *)
(* wider than the increment and all but the last as wide as the increment; *)
(* each is exported once, in the order queried; when run prints            *)
(* "Finished!" the last one ends at year_max.                              *)
(***************************************************************************)
Width(r) == r.temp_max - r.temp_min + 1

Consecutive(rs) ==
    /\ rs # <<>> => rs[1].temp_min = years.year_min
    /\ \A k \in 2..Len(rs) : rs[k].temp_min = rs[k - 1].temp_max + 1
    /\ \A k \in 1..Len(rs) :
          /\ rs[k].temp_min <= rs[k].temp_max
          /\ rs[k].temp_max <= years.year_max
          /\ Width(rs[k]) <= years.year_incr
          /\ rs[k].temp_max < years.year_max => Width(rs[k]) = years.year_incr

C19_SubRangesPartitionTheSpan ==
    (years # NoValue /\ years.year_min <= years.year_max
        /\ years.year_incr >= 1) =>
        /\ Consecutive(queried)
        /\ IsPrefix(exported, queried)
        /\ Len(queried) - Len(exported)
              = IF rpc = "export" \/ (rpc = "crashed" /\ queried # <<>>)
                THEN 1 ELSE 0
        /\ rpc = "finished" =>
              /\ exported = queried
              /\ exported # <<>>
              /\ Last(exported).temp_max = years.year_max

C19_Witness ==
    /\ rpc = "finished"
    /\ Len(exported) >= 2
    /\ Width(Last(exported)) < years.year_incr
    /\ years.year_min > 0

=============================================================================
